---- MODULE Spec2Model ----
(***************************************************************************)
(* Offline-first task backend: the local task table and sync queue         *)
(* (TaskService), the batch sync engine (SyncService) and the remote batch *)
(* exchange (POST /sync/batch).                                            *)
(*                                                                         *)
(* Representation.  A row or a JSON object is a function from field names  *)
(* to values.  Timestamps are positive integers read from the clock `now`; *)
(* uuids are positive integers, fresh at every call of uuidv4().  SQL NULL *)
(* in an integer column is NULL, JavaScript `undefined` is UNDEFINED.      *)
(* `description` and `completed` travel through exactly the same column    *)
(* lists and object spreads as `title` and are not carried separately.     *)
(*                                                                         *)
(* Specifications.  Spec: TaskService and SyncService against the          *)
(* repository's own route, with transport and local failures.              *)
(* SpecContract: the cycle against a remote known only by the wire         *)
(* contract (it may answer 'conflict'); SpecContractFair adds that cycles  *)
(* are repeated.  SpecSeeded: the route holding a record under the         *)
(* client's id.  SpecConcurrent: addToSyncQueue statement by statement,    *)
(* two callers.                                                            *)
(***************************************************************************)
EXTENDS Integers, Sequences, FiniteSets, TLC

(* ---- bounds of the model ---- *)
MaxTasks == 2
MaxItems == 3
MaxTime == 2
MaxRemote == 1

(* ---- program constants ---- *)
\* SyncService.BATCH_SIZE (SYNC_BATCH_SIZE of the environment).
BATCH_SIZE == 2
\* maxRetries of handleSyncError, and the literal of the drain's WHERE clause.
maxRetries == 3

NULL == 0
UNDEFINED == -1
NoMessage == "NULL"
Titles == {"A"}
Renames == {"B"}
Operations == {"create", "update", "delete"}
OptionalFields == {"server_id", "last_synced_at"}

VARIABLES
  tasks,       \* local table `tasks`: id -> row
  queue,       \* local table `sync_queue`, in rowid order
  nextItem,    \* number of sync_queue ids handed out so far
  remote,      \* table `tasks` of the remote authority: id -> row
  now,         \* the clock read by new Date()
  connected,   \* whether the remote exchange is reachable
  pc,          \* position of sync(): idle, exchange, apply, done (returning)
  items,       \* sync(): the drained items
  i,           \* sync(): index of the first item of the current batch
  resp,        \* sync(): processed_items of the current batch's response
  k,           \* sync(): index of the next entry of resp to apply
  synced,      \* sync(): counters and error list
  failed,
  conflicts,
  errors,
  enq,         \* addToSyncQueue: caller -> position and arguments of its call
  remote0,     \* history: the remote table as the last exchange of the running
               \*          cycle found it
  failedIn,    \* history: ids of the items failed so far in the running cycle
  streak,      \* history: item id -> cycles in a row in which the item failed,
               \*          counted since the last local mutation of its task
  posts        \* history: the batches, as item ids, handed to
               \*          processBatchServer so far in the running cycle

vars == <<tasks, queue, nextItem, remote, now, connected, pc, items, i, resp, k,
          synced, failed, conflicts, errors, enq, remote0, failedIn, streak,
          posts>>

cycleVars == <<pc, items, i, resp, k, synced, failed, conflicts, errors>>
history == <<failedIn, streak>>

\* The callers that may be inside addToSyncQueue at the same time, and the
\* record of a caller that is not.
Callers == {"a", "b"}
Idle == [pc |-> "idle"]

(* ---- helpers ---- *)
Min(a, b) == IF a <= b THEN a ELSE b

\* { ...base, ...over }
Spread(base, over) ==
  [f \in DOMAIN base \cup DOMAIN over |->
     IF f \in DOMAIN over THEN over[f] ELSE base[f]]

\* JSON.stringify followed by JSON.parse: keys whose value is undefined vanish.
JsonStringify(o) ==
  [f \in {g \in DOMAIN o : ~(g \in OptionalFields /\ o[g] = UNDEFINED)} |-> o[f]]

\* `x ?? null` of the INSERT parameters.
OrNull(x) == IF x = UNDEFINED THEN NULL ELSE x

\* `x || dflt` on a string field of a partial object.
TitleOr(data, dflt) ==
  IF "title" \in DOMAIN data /\ data.title # "" THEN data.title ELSE dflt

ItemsOfTask(q, taskId) == {n \in 1..Len(q) : q[n].task_id = taskId}

\* DELETE FROM sync_queue WHERE task_id = ?
DeleteByTask(q, taskId) == SelectSeq(q, LAMBDA it : it.task_id # taskId)

(* ---- history of failures (observation only, read by no action) ---- *)
ItemIds(q) == {q[n].id : n \in 1..Len(q)}

\* The items `ids` have just been counted as failed; the count of cycles stops
\* at maxRetries, beyond which nothing distinguishes the runs.
Failed(ids) ==
  /\ failedIn' = failedIn \cup ids
  /\ streak' = [id \in DOMAIN streak |->
                  IF id \in ids \ failedIn
                    THEN Min(streak[id] + 1, maxRetries) ELSE streak[id]]

\* Task `taskId` has just been mutated locally.
Mutated(taskId) ==
  /\ streak' = [id \in DOMAIN streak |->
                  IF \E n \in ItemsOfTask(queue, taskId) : queue[n].id = id
                    THEN 0 ELSE streak[id]]
  /\ UNCHANGED failedIn

(* ---- TaskService ---- *)

\* The columns of sync_queue that TaskService's INSERT leaves to the schema.
SchemaDefaultItem(id, taskId, operation, data, t) ==
  [id |-> id, task_id |-> taskId, operation |-> operation, data |-> data,
   created_at |-> t, retry_count |-> 0, error_message |-> NoMessage]

\* The Task object built by createTask.
NewTask(id, taskData, t) ==
  [id |-> id, title |-> TitleOr(taskData, ""), is_deleted |-> FALSE,
   created_at |-> t, updated_at |-> t, sync_status |-> "pending",
   server_id |-> UNDEFINED, last_synced_at |-> UNDEFINED]

\* The row createTask inserts for that object.
InsertedRow(task) ==
  [task EXCEPT !.server_id = OrNull(task.server_id),
               !.last_synced_at = OrNull(task.last_synced_at)]

\* The object updateTask builds from the stored row and the request.
UpdatedTask(existing, updates, t) ==
  Spread(Spread(existing, updates), [updated_at |-> t, sync_status |-> "pending"])

\* The row after updateTask's UPDATE: only the listed columns are written.
UpdatedRow(existing, updatedTask) ==
  [existing EXCEPT !.title = updatedTask.title,
                   !.updated_at = updatedTask.updated_at,
                   !.is_deleted = updatedTask.is_deleted,
                   !.sync_status = updatedTask.sync_status]

\* The row after deleteTask's UPDATE.
DeletedRow(existing, t) ==
  [existing EXCEPT !.is_deleted = TRUE, !.updated_at = t, !.sync_status = "pending"]

\* How a mutation of TaskService puts its operation on the queue.
Enqueue(q, id, taskId, operation, data, t) ==
  Append(q, SchemaDefaultItem(id, taskId, operation, data, t))

\* getTask: null for a missing or soft-deleted row.
Readable(table, id) == id \in DOMAIN table /\ ~table[id].is_deleted

GetTask(table, id) == IF Readable(table, id) THEN table[id] ELSE NULL

CreateTask(title) ==
  /\ Cardinality(DOMAIN tasks) < MaxTasks
  /\ nextItem < MaxItems
  /\ LET id == Cardinality(DOMAIN tasks) + 1
         task == NewTask(id, [title |-> title], now)
     IN /\ tasks' = tasks @@ (id :> InsertedRow(task))
        /\ queue' = Enqueue(queue, nextItem + 1, id, "create", JsonStringify(task), now)
  /\ nextItem' = nextItem + 1
  /\ UNCHANGED <<remote, remote0, posts, enq, now, connected, cycleVars, history>>

UpdateTask(id, updates) ==
  /\ id \in DOMAIN tasks
  /\ nextItem < MaxItems
  /\ LET updatedTask == UpdatedTask(tasks[id], updates, now)
     IN /\ tasks' = [tasks EXCEPT ![id] = UpdatedRow(tasks[id], updatedTask)]
        /\ queue' = Enqueue(queue, nextItem + 1, id, "update", JsonStringify(updatedTask), now)
  /\ nextItem' = nextItem + 1
  /\ Mutated(id)
  /\ UNCHANGED <<remote, remote0, posts, enq, now, connected, cycleVars>>

DeleteTask(id) ==
  /\ id \in DOMAIN tasks
  /\ nextItem < MaxItems
  /\ tasks' = [tasks EXCEPT ![id] = DeletedRow(tasks[id], now)]
  /\ queue' = Enqueue(queue, nextItem + 1, id, "delete", [id |-> id], now)
  /\ nextItem' = nextItem + 1
  /\ Mutated(id)
  /\ UNCHANGED <<remote, remote0, posts, enq, now, connected, cycleVars>>

(* ---- SyncService: the queue ---- *)

\* Mutant: the INSERT without the DELETE before it.
addToSyncQueue_NoDelete(q, id, taskId, operation, data, t) ==
  Append(q,
         [id |-> id, task_id |-> taskId, operation |-> operation, data |-> data,
          created_at |-> t, retry_count |-> 0, error_message |-> NoMessage])

\* The queue after addToSyncQueue(taskId, operation, data) with queue id `id`.
addToSyncQueue(q, id, taskId, operation, data, t) ==
  Append(DeleteByTask(q, taskId),
         [id |-> id, task_id |-> taskId, operation |-> operation, data |-> data,
          created_at |-> t, retry_count |-> 0, error_message |-> NoMessage])

AddToSyncQueue(taskId, operation, data) ==
  /\ nextItem < MaxItems
  /\ queue' = addToSyncQueue(queue, nextItem + 1, taskId, operation, data, now)
  /\ nextItem' = nextItem + 1
  /\ Mutated(taskId)
  /\ UNCHANGED <<tasks, remote, remote0, posts, enq, now, connected, cycleVars>>

\* addToSyncQueue as the event loop runs it: each `await this.db.run` is a
\* point where another caller's statements may be executed.
InFlight == Cardinality({c \in Callers : enq[c].pc # "idle"})

\* The call: the arguments are bound, the DELETE is about to run.
BeginEnqueue(c, taskId, operation, data) ==
  /\ enq[c].pc = "idle"
  /\ nextItem + InFlight < MaxItems
  /\ enq' = [enq EXCEPT ![c] = [pc |-> "delete", task_id |-> taskId,
                                 operation |-> operation, data |-> data]]
  /\ UNCHANGED <<tasks, queue, nextItem, remote, remote0, posts, now, connected,
                 cycleVars, history>>

\* await this.db.run(`DELETE FROM sync_queue WHERE task_id = ?`)
EnqueueDelete(c) ==
  /\ enq[c].pc = "delete"
  /\ queue' = DeleteByTask(queue, enq[c].task_id)
  /\ enq' = [enq EXCEPT ![c].pc = "insert"]
  /\ UNCHANGED <<tasks, nextItem, remote, remote0, posts, now, connected,
                 cycleVars, history>>

\* The item is built and await this.db.run(`INSERT INTO sync_queue ...`) runs.
EnqueueInsert(c) ==
  /\ enq[c].pc = "insert"
  /\ queue' = Append(queue,
                     [id |-> nextItem + 1, task_id |-> enq[c].task_id,
                      operation |-> enq[c].operation, data |-> enq[c].data,
                      created_at |-> now, retry_count |-> 0,
                      error_message |-> NoMessage])
  /\ nextItem' = nextItem + 1
  /\ enq' = [enq EXCEPT ![c] = Idle]
  /\ UNCHANGED <<tasks, remote, remote0, posts, now, connected, cycleVars, history>>

(* ---- SyncService: the cycle ---- *)

\* ORDER BY created_at ASC; rows with equal keys stay in rowid order.
InsertByCreatedAt(s, it) ==
  LET n == Cardinality({m \in 1..Len(s) : s[m].created_at <= it.created_at})
  IN SubSeq(s, 1, n) \o <<it>> \o SubSeq(s, n + 1, Len(s))

RECURSIVE OrderByCreatedAt(_)
OrderByCreatedAt(s) ==
  IF s = <<>> THEN <<>>
  ELSE InsertByCreatedAt(OrderByCreatedAt(SubSeq(s, 1, Len(s) - 1)), s[Len(s)])

\* Mutant: the drain without its WHERE clause.
Drain_IgnoresCeiling(q) == OrderByCreatedAt(q)

\* SELECT * FROM sync_queue WHERE retry_count < 3 ORDER BY created_at ASC
Drain(q) == OrderByCreatedAt(SelectSeq(q, LAMBDA it : it.retry_count < maxRetries))

\* Mutant: the slice runs one item too far.
Batch_OneTooMany == SubSeq(items, i, Min(i + BATCH_SIZE, Len(items)))

\* items.slice(i, i + BATCH_SIZE), with i counted from 1
Batch == SubSeq(items, i, Min(i + BATCH_SIZE - 1, Len(items)))

\* The SyncResult sync() returns; it is being returned while pc = "done".
Result ==
  [success |-> (failed = 0), synced_items |-> synced, failed_items |-> failed,
   conflicts |-> conflicts, errors |-> errors]

\* Mutant: the local version wins only when strictly newer.
resolveConflict_StrictlyNewer(localTask, serverTask) ==
  IF localTask.updated_at > serverTask.updated_at THEN localTask ELSE serverTask

\* resolveConflict: last write wins, a tie goes to the local version.
resolveConflict(localTask, serverTask) ==
  IF localTask.updated_at >= serverTask.updated_at THEN localTask ELSE serverTask

\* Mutant: the task is updated but its queue rows are not deleted.
updateSyncStatus_KeepsItem(table, q, taskId, serverData, t) ==
  LET updateData == [f \in DOMAIN serverData \ {"id"} |-> serverData[f]]
      row == Spread(Spread(table[taskId], updateData),
                    [sync_status |-> "synced", last_synced_at |-> t])
  IN [tasks |-> IF taskId \in DOMAIN table
                  THEN [table EXCEPT ![taskId] = row] ELSE table,
      queue |-> q]

\* updateSyncStatus(taskId, 'synced', serverData): the tables afterwards.
\* An assignment to a column named twice in SET keeps the rightmost value.
updateSyncStatus(table, q, taskId, serverData, t) ==
  LET updateData == [f \in DOMAIN serverData \ {"id"} |-> serverData[f]]
      row == Spread(Spread(table[taskId], updateData),
                    [sync_status |-> "synced", last_synced_at |-> t])
  IN [tasks |-> IF taskId \in DOMAIN table
                  THEN [table EXCEPT ![taskId] = row] ELSE table,
      queue |-> DeleteByTask(q, taskId)]

\* Mutant: the ceiling test is `>` instead of `>=`.
handleSyncError_OffByOne(table, q, item, message) ==
  LET newRetryCount == item.retry_count + 1
  IN [tasks |-> IF newRetryCount > maxRetries /\ item.task_id \in DOMAIN table
                  THEN [table EXCEPT ![item.task_id].sync_status = "error"]
                  ELSE table,
      queue |-> [n \in 1..Len(q) |->
                   IF q[n].id = item.id
                     THEN [q[n] EXCEPT !.retry_count = newRetryCount,
                                       !.error_message = message]
                     ELSE q[n]]]

\* handleSyncError(item, error): the tables afterwards.
handleSyncError(table, q, item, message) ==
  LET newRetryCount == item.retry_count + 1
  IN [tasks |-> IF newRetryCount >= maxRetries /\ item.task_id \in DOMAIN table
                  THEN [table EXCEPT ![item.task_id].sync_status = "error"]
                  ELSE table,
      queue |-> [n \in 1..Len(q) |->
                   IF q[n].id = item.id
                     THEN [q[n] EXCEPT !.retry_count = newRetryCount,
                                       !.error_message = message]
                     ELSE q[n]]]

\* The entry sync() pushes on `errors`.
SyncError(item, message, t) ==
  [task_id |-> item.task_id, operation |-> item.operation, error |-> message,
   timestamp |-> t]

\* Mutant: the catch block fails the first item of the batch only.
FailBatch_FirstOnly(table, q, batch, message) ==
  IF batch = <<>> THEN [tasks |-> table, queue |-> q]
  ELSE handleSyncError(table, q, Head(batch), message)

\* The catch block of sync(): every item of the batch is failed.
RECURSIVE FailBatch(_, _, _, _)
FailBatch(table, q, batch, message) ==
  IF batch = <<>> THEN [tasks |-> table, queue |-> q]
  ELSE LET st == handleSyncError(table, q, Head(batch), message)
       IN FailBatch(st.tasks, st.queue, Tail(batch), message)

BatchErrors(batch, message, t) ==
  [n \in 1..Len(batch) |-> SyncError(batch[n], message, t)]

\* batch.find((it) => it.task_id === res.client_id): 0 when there is none.
FindItem(batch, clientId) ==
  IF ItemsOfTask(batch, clientId) = {} THEN 0
  ELSE CHOOSE n \in ItemsOfTask(batch, clientId) :
         \A m \in ItemsOfTask(batch, clientId) : n <= m

\* Leaving the current batch: on to the next one, or to the return statement.
EndBatch(s, f, c, e) ==
  /\ pc' = IF i + BATCH_SIZE > Len(items) THEN "done" ELSE "exchange"
  /\ i' = i + BATCH_SIZE
  /\ synced' = s
  /\ failed' = f
  /\ conflicts' = c
  /\ errors' = e
  /\ UNCHANGED items

\* sync() up to the first batch: the drain, and the early return when nothing
\* is eligible.
StartSync ==
  /\ pc = "idle"
  /\ items' = Drain(queue)
  /\ pc' = IF Len(items') = 0 THEN "done" ELSE "exchange"
  /\ UNCHANGED <<tasks, queue, nextItem, remote, remote0, posts, enq, now, connected,
                 i, resp, k, synced, failed, conflicts, errors, history>>

\* The caller has received the SyncResult.
Return ==
  /\ pc = "done"
  /\ pc' = "idle"
  /\ items' = <<>>
  /\ i' = 1
  /\ synced' = 0
  /\ failed' = 0
  /\ conflicts' = 0
  /\ errors' = <<>>
  /\ failedIn' = {}
  /\ streak' = [id \in DOMAIN streak |->
                  IF id \in ItemIds(items) \ failedIn THEN 0 ELSE streak[id]]
  /\ remote0' = <<>>
  /\ posts' = <<>>
  /\ UNCHANGED <<tasks, queue, nextItem, remote, enq, now, connected, resp, k>>

\* processBatchServer rejects: the catch block fails the whole batch.
BatchFailure(message) ==
  LET st == FailBatch(tasks, queue, Batch, message)
  IN /\ tasks' = st.tasks
     /\ queue' = st.queue
     /\ resp' = <<>>
     /\ k' = 1
     /\ EndBatch(synced, failed + Len(Batch), conflicts,
                 errors \o BatchErrors(Batch, message, now))
     /\ Failed(ItemIds(Batch))

\* The batch handed to processBatchServer, as item ids.
Posted == [n \in 1..Len(Batch) |-> Batch[n].id]

ExchangeFail ==
  /\ pc = "exchange"
  /\ BatchFailure("Network Error")
  /\ posts' = Append(posts, Posted)
  /\ UNCHANGED <<nextItem, remote, remote0, enq, now, connected>>

\* The catch block reached from inside the response loop: a local read or
\* write of the outcome being applied rejects.
LocalFailure ==
  /\ pc = "apply"
  /\ BatchFailure("SQLITE_ERROR")
  /\ UNCHANGED <<nextItem, remote, remote0, posts, enq, now, connected>>

HasData(res) == "resolved_data" \in DOMAIN res

ErrorOf(res) ==
  IF "error" \in DOMAIN res THEN res.error ELSE "Unknown error from server"

\* One pass of `for (const res of response.processed_items)`.
ApplyOutcome ==
  /\ pc = "apply"
  /\ LET res == resp[k]
         last == (k = Len(resp))
         step(st, s, f, c, e) ==
           /\ tasks' = st.tasks
           /\ queue' = st.queue
           /\ IF f > failed THEN Failed({Batch[k].id}) ELSE UNCHANGED history
           /\ IF last
                THEN /\ resp' = <<>>
                     /\ k' = 1
                     /\ EndBatch(s, f, c, e)
                ELSE /\ k' = k + 1
                     /\ synced' = s
                     /\ failed' = f
                     /\ conflicts' = c
                     /\ errors' = e
                     /\ UNCHANGED <<pc, items, i, resp>>
         same == [tasks |-> tasks, queue |-> queue]
     IN IF res.status = "success"
          THEN step(updateSyncStatus(tasks, queue, res.client_id,
                                     IF HasData(res) THEN res.resolved_data ELSE <<>>,
                                     now),
                    synced + 1, failed, conflicts, errors)
        ELSE IF res.status = "conflict" /\ HasData(res)
          THEN IF res.client_id \in DOMAIN tasks
                 THEN LET winningTask ==
                            resolveConflict(tasks[res.client_id], res.resolved_data)
                      IN step(updateSyncStatus(tasks, queue, winningTask.id,
                                               winningTask, now),
                              synced + 1, failed, conflicts + 1, errors)
                 ELSE step(same, synced, failed + 1, conflicts, errors)
        ELSE LET n == FindItem(Batch, res.client_id)
             IN IF n # 0
                  THEN step(handleSyncError(tasks, queue, Batch[n], ErrorOf(res)),
                            synced, failed + 1, conflicts,
                            Append(errors, SyncError(Batch[n], ErrorOf(res), now)))
                  ELSE step(same, synced, failed, conflicts, errors)
  /\ UNCHANGED <<nextItem, remote, remote0, posts, enq, now, connected>>

(* ---- the remote batch exchange: POST /sync/batch ---- *)

\* uuidv4() on the remote side: an id no local task has.
RemoteFreshId(table) == 101 + Cardinality(DOMAIN table)

\* One pass of the route's `for (const item of items)`: the remote table
\* afterwards and the entry pushed on processed_items.
ProcessItem(table, item, t) ==
  LET clientData == item.data
      ok(tbl, serverId) ==
        [table |-> tbl,
         entry |-> [client_id |-> item.task_id, server_id |-> serverId,
                    status |-> "success"]]
      okData(tbl, serverId, resolved) ==
        [table |-> tbl,
         entry |-> [client_id |-> item.task_id, server_id |-> serverId,
                    status |-> "success", resolved_data |-> JsonStringify(resolved)]]
      thrown(message) ==
        [table |-> table,
         entry |-> [client_id |-> item.task_id, server_id |-> item.task_id,
                    status |-> "error", error |-> message]]
  IN IF item.operation = "create"
       THEN LET createdTask ==
                  NewTask(RemoteFreshId(table),
                          [title |-> TitleOr(clientData, "Untitled")], t)
            IN okData(table @@ (createdTask.id :> InsertedRow(createdTask)),
                      createdTask.id, createdTask)
     ELSE IF item.operation = "update"
       THEN LET serverTask == GetTask(table, item.task_id)
            IN IF ~Readable(table, item.task_id)
                 THEN thrown("not found on server")
               ELSE IF "updated_at" \in DOMAIN clientData
                       /\ clientData.updated_at > serverTask.updated_at
                 THEN LET updatedTask == UpdatedTask(table[item.task_id], clientData, t)
                      IN okData([table EXCEPT ![item.task_id] =
                                   UpdatedRow(table[item.task_id], updatedTask)],
                                item.task_id, updatedTask)
               ELSE okData(table, item.task_id, serverTask)
     ELSE ok(IF item.task_id \in DOMAIN table
               THEN [table EXCEPT ![item.task_id] = DeletedRow(table[item.task_id], t)]
               ELSE table,
             item.task_id)

\* Mutant: the first item that throws ends the loop.
RECURSIVE ProcessBatch_AbortsOnError(_, _, _)
ProcessBatch_AbortsOnError(table, batch, t) ==
  IF batch = <<>> THEN [table |-> table, processed_items |-> <<>>]
  ELSE LET one == ProcessItem(table, Head(batch), t)
           rest == IF one.entry.status = "error"
                     THEN [table |-> one.table, processed_items |-> <<>>]
                     ELSE ProcessBatch_AbortsOnError(one.table, Tail(batch), t)
       IN [table |-> rest.table,
           processed_items |-> <<one.entry>> \o rest.processed_items]

\* The whole route: one entry per item, in order.
RECURSIVE ProcessBatch(_, _, _)
ProcessBatch(table, batch, t) ==
  IF batch = <<>> THEN [table |-> table, processed_items |-> <<>>]
  ELSE LET one == ProcessItem(table, Head(batch), t)
           rest == ProcessBatch(one.table, Tail(batch), t)
       IN [table |-> rest.table,
           processed_items |-> <<one.entry>> \o rest.processed_items]

Creates(batch) == Cardinality({n \in 1..Len(batch) : batch[n].operation = "create"})

\* processBatchServer answered by the repository's own route.
ExchangeRoute ==
  /\ pc = "exchange"
  /\ connected
  /\ Cardinality(DOMAIN remote) + Creates(Batch) <= MaxRemote
  /\ LET r == ProcessBatch(remote, Batch, now)
     IN /\ remote' = r.table
        /\ resp' = r.processed_items
  /\ remote0' = remote
  /\ posts' = Append(posts, Posted)
  /\ pc' = "apply"
  /\ k' = 1
  /\ UNCHANGED <<tasks, queue, nextItem, now, connected, items, i,
                 synced, failed, conflicts, errors, enq, history>>

(* ---- SyncService: status queries ---- *)

\* Mutant: only the items a drain would return are counted.
getPendingCount_EligibleOnly(q) ==
  Len(SelectSeq(q, LAMBDA it : it.retry_count < maxRetries))

\* SELECT COUNT(*) as count FROM sync_queue
getPendingCount(q) == Len(SelectSeq(q, LAMBDA it : TRUE))

\* SELECT MAX(last_synced_at) FROM tasks WHERE sync_status = 'synced':
\* MAX skips NULLs and is NULL over no row; the method maps that to null.
getLastSyncTime(table) ==
  LET rows == {t \in DOMAIN table : table[t].sync_status = "synced"}
      values == {table[t].last_synced_at : t \in rows} \ {NULL}
  IN IF values = {} THEN NULL
     ELSE CHOOSE m \in values : \A v \in values : v <= m

(* ---- a remote authority known only by the wire contract ---- *)

\* The updated_at a remote version may carry: older than, equal to or newer
\* than what the local clock has written.
RemoteTimes == {1, MaxTime}

\* A version of task `id` as a remote authority holds it.
RemoteVersion(id, t) ==
  [id |-> id, title |-> "R", is_deleted |-> FALSE, created_at |-> t,
   updated_at |-> t, sync_status |-> "synced", server_id |-> id,
   last_synced_at |-> t]

\* The entries of BatchSyncResponse.processed_items the contract allows for
\* one submitted item.  The remote's version is stored under the client's id
\* or under an id of the remote's own.
Outcomes(item) ==
  LET base == [client_id |-> item.task_id, server_id |-> item.task_id]
  IN {base @@ [status |-> "success"],
      base @@ [status |-> "error", error |-> "remote error"],
      base @@ [status |-> "conflict"]}
     \cup {base @@ [status |-> "conflict", resolved_data |-> RemoteVersion(id, t)] :
             id \in {item.task_id, RemoteFreshId(<<>>)}, t \in RemoteTimes}

\* processBatchServer answered by any remote authority that honours the
\* contract: one entry per item, in order, matched by client_id.
ExchangeContract ==
  /\ pc = "exchange"
  /\ resp' \in {r \in [1..Len(Batch) -> UNION {Outcomes(Batch[n]) : n \in 1..Len(Batch)}] :
                  \A n \in 1..Len(Batch) : r[n] \in Outcomes(Batch[n])}
  /\ posts' = Append(posts, Posted)
  /\ pc' = "apply"
  /\ k' = 1
  /\ UNCHANGED <<tasks, queue, nextItem, remote, remote0, enq, now, connected, items, i,
                 synced, failed, conflicts, errors, history>>

\* checkConnectivity(): whether GET /health answers within the timeout.
checkConnectivity == connected

(* ---- environment ---- *)
Tick ==
  /\ now < MaxTime
  /\ now' = now + 1
  /\ UNCHANGED <<tasks, queue, nextItem, remote, remote0, posts, enq, connected, cycleVars, history>>

Disconnect ==
  /\ connected
  /\ connected' = FALSE
  /\ UNCHANGED <<tasks, queue, nextItem, remote, remote0, posts, enq, now, cycleVars, history>>

Reconnect ==
  /\ ~connected
  /\ connected' = TRUE
  /\ UNCHANGED <<tasks, queue, nextItem, remote, remote0, posts, enq, now, cycleVars, history>>

Init ==
  /\ tasks = <<>>
  /\ queue = <<>>
  /\ nextItem = 0
  /\ remote = <<>>
  /\ now = 1
  /\ connected = TRUE
  /\ pc = "idle"
  /\ items = <<>>
  /\ i = 1
  /\ resp = <<>>
  /\ k = 1
  /\ synced = 0
  /\ failed = 0
  /\ conflicts = 0
  /\ errors = <<>>
  /\ enq = [c \in Callers |-> Idle]
  /\ remote0 = <<>>
  /\ posts = <<>>
  /\ failedIn = {}
  /\ streak = [id \in 1..MaxItems |-> 0]

Next ==
  \/ \E title \in Titles : CreateTask(title)
  \/ \E id \in DOMAIN tasks, title \in Renames : UpdateTask(id, [title |-> title])
  \/ \E id \in DOMAIN tasks : DeleteTask(id)
  \/ \E id \in DOMAIN tasks, op \in Operations :
        AddToSyncQueue(id, op, JsonStringify(tasks[id]))
  \/ StartSync
  \/ ExchangeRoute
  \/ ExchangeFail
  \/ ApplyOutcome
  \/ LocalFailure
  \/ Return
  \/ Tick
  \/ Disconnect
  \/ Reconnect

Spec == Init /\ [][Next]_vars

\* A task id that no local task carries.
UnknownTask == MaxTasks + 1

\* The sync engine against a remote authority known only by the contract:
\* one local task and one queued operation of a task the local store does not
\* have, both written between cycles.
NextContract ==
  \/ pc = "idle" /\ tasks = <<>> /\ \E title \in Titles : CreateTask(title)
  \/ pc = "idle" /\ AddToSyncQueue(UnknownTask, "update", [id |-> UnknownTask])
  \/ pc = "idle" /\ Tick
  \/ StartSync
  \/ ExchangeContract
  \/ ApplyOutcome
  \/ Return

SpecContract == Init /\ [][NextContract]_vars

(***************************************************************************)
(* Properties                                                              *)
(***************************************************************************)
OtherTasks(q, taskId) == SelectSeq(q, LAMBDA it : it.task_id # taskId)

\* C1: after any sequence of local mutations and sync cycles the sync queue
\* holds at most one item per task_id.
C1_OneItemPerTask ==
  \A t \in DOMAIN tasks : Cardinality(ItemsOfTask(queue, t)) <= 1

\* C2: addToSyncQueue(taskId, op2, snapshot2), called while an item of taskId
\* is queued (whatever its retry_count), leaves exactly one item of taskId; it
\* carries op2 and snapshot2 with retry_count 0, and the items of the other
\* tasks are as they were.
C2_EnqueueReplaces ==
  [][\A t \in DOMAIN tasks, op \in Operations :
       (AddToSyncQueue(t, op, JsonStringify(tasks[t])) /\ ItemsOfTask(queue, t) # {})
       => /\ Cardinality(ItemsOfTask(queue', t)) = 1
          /\ \A n \in ItemsOfTask(queue', t) :
               /\ queue'[n].operation = op
               /\ queue'[n].data = JsonStringify(tasks[t])
               /\ queue'[n].retry_count = 0
               /\ queue'[n].id \notin ItemIds(queue)
          /\ OtherTasks(queue', t) = OtherTasks(queue, t)]_vars

\* C2 witness: a task that was forced to 'error' by an item at the retry
\* ceiling now has a single, fresh item that only addToSyncQueue can have
\* written (a 'delete' carrying a full snapshot).
C2_Witness ==
  \E t \in DOMAIN tasks :
    /\ tasks[t].sync_status = "error"
    /\ Cardinality(ItemsOfTask(queue, t)) = 1
    /\ \A n \in ItemsOfTask(queue, t) :
         /\ queue[n].operation = "delete"
         /\ "title" \in DOMAIN queue[n].data
         /\ queue[n].retry_count = 0

\* C3: every queue item has retry_count <= 3; the call of handleSyncError that
\* brings an item's retry_count to 3 sets the item's task to 'error', and a
\* call that leaves it below 3 leaves the task table alone.
C3_RetryCeiling ==
  /\ \A n \in 1..Len(queue) : queue[n].retry_count <= maxRetries
  /\ pc \in {"exchange", "apply"} =>
       \A n \in 1..Len(Batch) :
         LET item == Batch[n]
             st == handleSyncError(tasks, queue, item, "failure")
         IN /\ \A m \in 1..Len(st.queue) : st.queue[m].retry_count <= maxRetries
            /\ item.retry_count + 1 = maxRetries
                 => st.tasks[item.task_id].sync_status = "error"
            /\ item.retry_count + 1 < maxRetries => st.tasks = tasks

\* C3 witness: an item has reached the ceiling and its task is in 'error'.
C3_Witness ==
  \E n \in 1..Len(queue) :
    /\ queue[n].retry_count = maxRetries
    /\ tasks[queue[n].task_id].sync_status = "error"

\* C4: an item that has failed in three consecutive cycles, its task not
\* mutated locally in between, is still queued with retry_count = 3, its task
\* is in 'error', and no later cycle drains (submits) it.
C4_ThreeFailures ==
  /\ \A n \in 1..Len(queue) :
       streak[queue[n].id] >= 3
         => /\ queue[n].retry_count = maxRetries
            /\ tasks[queue[n].task_id].sync_status = "error"
  /\ \A n \in 1..Len(items) :
       streak[items[n].id] >= 3 => items[n].id \in failedIn

\* C5: the SyncResult of every cycle satisfies synced_items + failed_items =
\* number of items drained: each drained item is counted exactly once.
C5_EveryItemCountedOnce ==
  pc = "done" => Result.synced_items + Result.failed_items = Len(items)

\* C6: a transport failure of the exchange for a batch of k items raises the
\* retry_count of each of the k items by exactly 1 and sets its error_message,
\* adds k to failed_items and one entry per item to errors, and the cycle goes
\* on to the next batch.
AfterTransportFailure(hit) ==
  /\ \A n \in hit :
       \E m \in 1..Len(queue), m2 \in 1..Len(queue') :
         /\ queue[m].id = Batch[n].id
         /\ queue'[m2].id = Batch[n].id
         /\ queue'[m2].retry_count = queue[m].retry_count + 1
         /\ queue'[m2].error_message = "Network Error"
  /\ failed' = failed + Len(Batch)
  /\ Len(errors') = Len(errors) + Len(Batch)
  /\ \A n \in 1..Len(Batch) :
       /\ errors'[Len(errors) + n].task_id = Batch[n].task_id
       /\ errors'[Len(errors) + n].operation = Batch[n].operation
  /\ SubSeq(errors', 1, Len(errors)) = errors
  /\ synced' = synced
  /\ i + BATCH_SIZE <= Len(items) => (pc' = "exchange" /\ i' = i + BATCH_SIZE)

C6_WholeBatchRetried ==
  [][ExchangeFail => AfterTransportFailure(1..Len(Batch))]_vars

\* C6, amended: as C6, for each of the k items that is still in the queue when
\* the failure is handled; an item deleted since the drain gets no row back.
C6_QueuedItemsRetried ==
  [][ExchangeFail =>
       AfterTransportFailure({n \in 1..Len(Batch) : Batch[n].id \in ItemIds(queue)})]_vars

\* C6 witness: a full batch has failed at transport level, its items carry the
\* failure, and a later batch is about to be submitted.
C6_Witness ==
  /\ pc = "exchange"
  /\ i = 1 + BATCH_SIZE
  /\ failed = BATCH_SIZE
  /\ \A n \in 1..BATCH_SIZE :
       /\ errors[n].error = "Network Error"
       /\ \E m \in 1..Len(queue) :
            /\ queue[m].id = items[n].id
            /\ queue[m].retry_count = items[n].retry_count + 1

\* C7: a local read or write that fails while one outcome is applied fails
\* that item only: the items already synced in the batch are not counted as
\* failed as well, their tasks are not set to 'error', and the remaining
\* outcomes of the batch are still applied.
C7_OnlyThatItemFails ==
  [][LocalFailure =>
       /\ failed' = failed + 1
       /\ synced' = synced
       /\ \A t \in DOMAIN tasks :
            tasks[t].sync_status = "synced" => tasks'[t].sync_status = "synced"
       /\ k < Len(resp) => (pc' = "apply" /\ k' = k + 1)]_vars

\* C8: while the remote exchange is unreachable, a sync cycle changes no
\* item's retry_count and sets no task to 'error'.
C8_UnreachableCostsNoRetry ==
  [][~checkConnectivity =>
       /\ \A n \in 1..Len(queue), m \in 1..Len(queue') :
            queue'[m].id = queue[n].id => queue'[m].retry_count = queue[n].retry_count
       /\ \A t \in DOMAIN tasks :
            tasks'[t].sync_status = "error" => tasks[t].sync_status = "error"]_vars

\* C9: applying a 'success' outcome leaves the task client_id 'synced' with
\* last_synced_at the time of application, every field of the resolved data
\* other than id (and the two fields just named) stored in the task, the id
\* as it was, no queue item of that task, and synced_items one higher.
C9_SuccessApplied ==
  [][(ApplyOutcome /\ resp[k].status = "success") =>
       LET t == resp[k].client_id
           d == IF HasData(resp[k]) THEN resp[k].resolved_data ELSE <<>>
       IN /\ t \in DOMAIN tasks'
          /\ DOMAIN tasks' = DOMAIN tasks
          /\ tasks'[t].sync_status = "synced"
          /\ tasks'[t].last_synced_at = now
          /\ tasks'[t].id = t
          /\ \A f \in DOMAIN d \ {"id", "sync_status", "last_synced_at"} :
               tasks'[t][f] = d[f]
          /\ \A f \in DOMAIN tasks[t] \ (DOMAIN d \cup {"sync_status", "last_synced_at"}) :
               tasks'[t][f] = tasks[t][f]
          /\ ItemsOfTask(queue', t) = {}
          /\ synced' = synced + 1
          /\ failed' = failed]_vars

\* C9 witness: the first outcome of a response, a 'success' with resolved
\* data, has just been applied.
C9_Witness ==
  /\ pc = "apply"
  /\ k = 2
  /\ synced = 1
  /\ resp[1].status = "success"
  /\ HasData(resp[1])
  /\ tasks[resp[1].client_id].sync_status = "synced"
  /\ tasks[resp[1].client_id].last_synced_at = now
  /\ tasks[resp[1].client_id].updated_at = resp[1].resolved_data.updated_at
  /\ ItemsOfTask(queue, resp[1].client_id) = {}

\* C10: once the 'create' item of a task has been synced with success, the
\* task carries the identifier the remote authority assigned as server_id, is
\* 'synced', and has no queue item.
C10_ServerIdAssigned ==
  [][(ApplyOutcome /\ resp[k].status = "success" /\ Batch[k].operation = "create") =>
       /\ tasks'[resp[k].client_id].server_id = resp[k].server_id
       /\ tasks'[resp[k].client_id].sync_status = "synced"
       /\ ItemsOfTask(queue', resp[k].client_id) = {}]_vars

\* Callers of addToSyncQueue that run concurrently on the event loop.
NextConcurrent ==
  \/ \E title \in Titles : CreateTask(title)
  \/ \E c \in Callers, id \in DOMAIN tasks, op \in Operations :
        BeginEnqueue(c, id, op, JsonStringify(tasks[id]))
  \/ \E c \in Callers : EnqueueDelete(c)
  \/ \E c \in Callers : EnqueueInsert(c)
  \/ Tick

SpecConcurrent == Init /\ [][NextConcurrent]_vars

\* A task that was synced at time 1, and a remote authority that holds a
\* version of it under the same id.
SyncedTask(id) ==
  [id |-> id, title |-> "A", is_deleted |-> FALSE, created_at |-> 1,
   updated_at |-> 1, sync_status |-> "synced", server_id |-> NULL,
   last_synced_at |-> 1]

InitSeeded ==
  /\ tasks = (1 :> SyncedTask(1))
  /\ \E rt \in RemoteTimes : remote = (1 :> RemoteVersion(1, rt))
  /\ queue = <<>>
  /\ nextItem = 0
  /\ now = 1
  /\ connected = TRUE
  /\ pc = "idle"
  /\ items = <<>>
  /\ i = 1
  /\ resp = <<>>
  /\ k = 1
  /\ synced = 0
  /\ failed = 0
  /\ conflicts = 0
  /\ errors = <<>>
  /\ enq = [c \in Callers |-> Idle]
  /\ remote0 = <<>>
  /\ posts = <<>>
  /\ failedIn = {}
  /\ streak = [id \in 1..MaxItems |-> 0]

\* Local updates and deletes of that task, synced through the route.
NextSeeded ==
  \/ \E id \in DOMAIN tasks, title \in Renames : UpdateTask(id, [title |-> title])
  \/ \E id \in DOMAIN tasks : DeleteTask(id)
  \/ StartSync
  \/ ExchangeRoute
  \/ ApplyOutcome
  \/ Return
  \/ Tick

SpecSeeded == InitSeeded /\ [][NextSeeded]_vars

\* C19: a task's created_at never changes after the task is created, across
\* local mutations and sync cycles, the commit of resolved data and of a
\* conflict winner included.
C19_CreatedAtImmutable ==
  [][\A t \in DOMAIN tasks : tasks'[t].created_at = tasks[t].created_at]_vars

\* C20: a cycle started while the queue holds no item with retry_count < 3
\* performs no remote exchange, changes no queue item and no task, and
\* returns success = true with all counts zero and no errors.
C20_NothingToSync ==
  [][(StartSync /\ \A n \in 1..Len(queue) : queue[n].retry_count >= maxRetries) =>
       /\ pc' = "done"
       /\ tasks' = tasks
       /\ queue' = queue
       /\ remote' = remote
       /\ resp' = resp
       /\ Result' = [success |-> TRUE, synced_items |-> 0, failed_items |-> 0,
                     conflicts |-> 0, errors |-> <<>>]]_vars

\* C20 witness: a cycle is returning without having drained anything, while
\* one task is 'synced' with no queue item and an item at the retry ceiling
\* is still queued.
C20_Witness ==
  /\ pc = "done"
  /\ items = <<>>
  /\ Result.success
  /\ \E n \in 1..Len(queue) : queue[n].retry_count = maxRetries
  /\ \E t \in DOMAIN tasks :
       /\ tasks[t].sync_status = "synced"
       /\ tasks[t].last_synced_at # NULL
       /\ ItemsOfTask(queue, t) = {}

\* C21: getPendingCount is the number of all queue items, those at the retry
\* ceiling included; getLastSyncTime is the greatest last_synced_at of the
\* tasks that are 'synced', and null when no task is.
C21_StatusQueries ==
  /\ getPendingCount(queue) = Cardinality(ItemIds(queue))
  /\ LET syncedTasks == {t \in DOMAIN tasks : tasks[t].sync_status = "synced"}
     IN IF syncedTasks = {}
          THEN getLastSyncTime(tasks) = NULL
          ELSE /\ \E t \in syncedTasks : getLastSyncTime(tasks) = tasks[t].last_synced_at
               /\ \A t \in syncedTasks : getLastSyncTime(tasks) >= tasks[t].last_synced_at

\* C21 witness: the queue holds an item at the retry ceiling next to an
\* eligible one, one task is 'synced' and another is not.
C21_Witness ==
  /\ \E n, m \in 1..Len(queue) :
       queue[n].retry_count = maxRetries /\ queue[m].retry_count < maxRetries
  /\ getPendingCount(queue) = 2
  /\ \E t, u \in DOMAIN tasks :
       /\ tasks[t].sync_status = "synced"
       /\ tasks[u].sync_status # "synced"
       /\ getLastSyncTime(tasks) = tasks[t].last_synced_at

\* The ids of the queue items below the retry ceiling.
EligibleIds(q) == {q[n].id : n \in {m \in 1..Len(q) : q[m].retry_count < maxRetries}}

\* C22: a cycle drains exactly the items with retry_count < 3, in ascending
\* created_at order; every exchange carries at most BATCH_SIZE of them, all
\* below the ceiling, and every item of an earlier position (in the batch or
\* in an earlier batch) is at least as old.
C22_OldestFirstInBatches ==
  [][/\ StartSync =>
          /\ ItemIds(items') = EligibleIds(queue)
          /\ Len(items') = Cardinality(EligibleIds(queue))
          /\ \A n, m \in 1..Len(items') :
               n < m => items'[n].created_at <= items'[m].created_at
     /\ (ExchangeRoute \/ ExchangeFail) =>
          /\ Len(Batch) >= 1
          /\ Len(Batch) <= BATCH_SIZE
          /\ \A n \in 1..Len(Batch) :
               /\ Batch[n].retry_count < maxRetries
               /\ Batch[n] = items[i + n - 1]
               /\ \A m \in 1..(i + n - 2) :
                    items[m].created_at <= Batch[n].created_at]_vars

\* C22 witness: the second batch of a cycle is about to be submitted; the
\* drain held more than BATCH_SIZE items of different ages.
C22_Witness ==
  /\ pc = "exchange"
  /\ i = 1 + BATCH_SIZE
  /\ Len(items) > BATCH_SIZE
  /\ items[1].created_at < items[Len(items)].created_at
  /\ \A n \in 1..Len(Batch) : Batch[n].retry_count < maxRetries

\* Queue item n was written by a mutation of its task that came after the
\* drain of the running cycle, which holds an older item of the same task;
\* the task row still is what that mutation stored.
MutatedSinceDrain(n) ==
  /\ pc \in {"exchange", "apply"}
  /\ queue[n].id \notin ItemIds(items)
  /\ ItemsOfTask(items, queue[n].task_id) # {}
  /\ queue[n].task_id \in DOMAIN tasks
  /\ tasks[queue[n].task_id].sync_status = "pending"
  /\ "updated_at" \in DOMAIN queue[n].data
  /\ queue[n].data.updated_at = tasks[queue[n].task_id].updated_at
  /\ \A m \in ItemsOfTask(queue, queue[n].task_id) : m <= n

\* C23: a mutation of a task made after the cycle drained the task's item is
\* not lost by the cycle: no step of the cycle removes the item carrying the
\* newer snapshot or changes the task row, which stays 'pending' with the
\* fields of the newer mutation.
C23_NewerMutationKept ==
  [][(ApplyOutcome \/ ExchangeFail \/ LocalFailure) =>
       \A n \in 1..Len(queue) :
         MutatedSinceDrain(n) =>
           /\ \E m \in 1..Len(queue') :
                queue'[m].id = queue[n].id /\ queue'[m].data = queue[n].data
           /\ tasks'[queue[n].task_id] = tasks[queue[n].task_id]]_vars

(***************************************************************************)
(* Properties of the cycle against a contract-only remote (SpecContract)   *)
(***************************************************************************)

\* The outcome being applied is a 'conflict' that carries the remote version
\* and whose local task exists.
ResolvableConflict ==
  /\ pc = "apply"
  /\ resp[k].status = "conflict"
  /\ HasData(resp[k])
  /\ resp[k].client_id \in DOMAIN tasks

\* C11: applying a 'conflict' outcome that carries the remote version and
\* whose local task exists commits the resolver's winner to the local task,
\* marks it 'synced', removes the queue items of client_id and raises both
\* conflicts and synced_items by one, failed_items by none; so conflicts <=
\* synced_items in every report.
C11_ConflictResolved ==
  [][(ApplyOutcome /\ ResolvableConflict) =>
       LET t == resp[k].client_id
           w == resolveConflict(tasks[t], resp[k].resolved_data)
       IN /\ tasks'[t].sync_status = "synced"
          /\ tasks'[t].last_synced_at = now
          /\ \A f \in DOMAIN w \ {"id", "sync_status", "last_synced_at"} :
               tasks'[t][f] = w[f]
          /\ ItemsOfTask(queue', t) = {}
          /\ conflicts' = conflicts + 1
          /\ synced' = synced + 1
          /\ failed' = failed
          /\ conflicts' <= synced']_vars

\* The versions a remote authority may supply for local task t.
VersionsFor(t) ==
  {RemoteVersion(id, rt) : id \in {t, RemoteFreshId(<<>>)}, rt \in RemoteTimes}

\* C12: resolveConflict(local, remote) is the local version exactly when
\* local.updated_at >= remote.updated_at (a tie included) and the remote
\* version otherwise; the result is one of the two inputs in full.  As an
\* operator of its two arguments it reads and writes nothing else.
C12_LastWriteWins ==
  \A t \in DOMAIN tasks :
    \A remoteTask \in VersionsFor(t) :
      LET w == resolveConflict(tasks[t], remoteTask)
      IN /\ w \in {tasks[t], remoteTask}
         /\ (w = tasks[t]) <=> (tasks[t].updated_at >= remoteTask.updated_at)
         /\ (tasks[t].updated_at < remoteTask.updated_at) => w = remoteTask

\* C12 witness: a conflict whose two versions carry the same updated_at has
\* just been resolved, and the local title was kept.
C12_Witness ==
  /\ pc = "apply"
  /\ k = 2
  /\ conflicts = 1
  /\ resp[1].status = "conflict"
  /\ HasData(resp[1])
  /\ resp[1].client_id \in DOMAIN tasks
  /\ tasks[resp[1].client_id].updated_at = resp[1].resolved_data.updated_at
  /\ tasks[resp[1].client_id].title \in Titles
  /\ tasks[resp[1].client_id].sync_status = "synced"

\* C14: in every cycle report success is true exactly when failed_items = 0,
\* and errors has exactly failed_items entries, each carrying the task_id and
\* operation of a drained item; a 'conflict' outcome without a local task is
\* counted as failed and recorded like any other failure.
C14_FailuresRecorded ==
  pc = "done" =>
    /\ Result.success <=> (Result.failed_items = 0)
    /\ Len(Result.errors) = Result.failed_items
    /\ \A n \in 1..Len(Result.errors) :
         \E m \in 1..Len(items) :
           /\ Result.errors[n].task_id = items[m].task_id
           /\ Result.errors[n].operation = items[m].operation

\* C24: when a cycle ends in which every drained item was counted in
\* synced_items, every task of a drained item is 'synced' and has no queue
\* item, a conflict resolved in favour of the remote version included; and in
\* every state a 'synced' task has no queue item with retry_count < 3.
C24_SyncedMeansSettled ==
  /\ (pc = "done" /\ Result.failed_items = 0 /\ Result.synced_items = Len(items)) =>
       \A n \in 1..Len(items) :
         items[n].task_id \in DOMAIN tasks =>
           /\ tasks[items[n].task_id].sync_status = "synced"
           /\ ItemsOfTask(queue, items[n].task_id) = {}
  /\ \A n \in 1..Len(queue) :
       (queue[n].task_id \in DOMAIN tasks /\ queue[n].retry_count < maxRetries)
         => tasks[queue[n].task_id].sync_status # "synced"

(* ---- Termination of a cycle ---- *)

\* The steps of a running cycle that the process takes by itself: the awaits
\* on the local store resolve, and the return statement is reached.  The await
\* on axios.post in processBatchServer is given no timeout, so nothing in the
\* code makes an exchange end.
LocalStepsRun ==
  /\ WF_vars(ApplyOutcome)
  /\ WF_vars(Return)

SpecLocalFair == Spec /\ LocalStepsRun

RECURSIVE Flatten(_)
Flatten(batches) ==
  IF batches = <<>> THEN <<>> ELSE Head(batches) \o Flatten(Tail(batches))

\* ceil(n / B)
CeilDiv(n, B) == (n + B - 1) \div B

\* At the return statement the cycle has made ceil(n / B) exchanges, and the
\* batches it submitted are the drained items, each once, in drain order.
PostsCoverItems ==
  pc = "done" =>
    /\ Len(posts) = CeilDiv(Len(items), BATCH_SIZE)
    /\ Flatten(posts) = [n \in 1..Len(items) |-> items[n].id]

\* C25: every sync cycle terminates and returns a report; for n drained items
\* and batch size B >= 1 it makes exactly ceil(n / B) remote exchanges, submits
\* each drained item exactly once, and re-attempts no item within the cycle.
C25_EveryCycleReturns ==
  /\ []PostsCoverItems
  /\ (pc = "exchange") ~> (pc = "done")

\* Sync cycles are run again and again, and each one runs to its return.
CyclesRepeat ==
  /\ WF_vars(StartSync)
  /\ WF_vars(ExchangeContract)
  /\ WF_vars(ApplyOutcome)
  /\ WF_vars(Return)

SpecContractFair == SpecContract /\ CyclesRepeat

\* Queue item `id` is queued and eligible for the next drain.
Eligible(id) ==
  \E n \in 1..Len(queue) : queue[n].id = id /\ queue[n].retry_count < maxRetries

\* Queue item `id` has left the queue, or is at the retry ceiling with its
\* task (if the local store has it) in 'error'.
Settled(id) ==
  \A n \in 1..Len(queue) :
    queue[n].id = id =>
      /\ queue[n].retry_count = maxRetries
      /\ queue[n].task_id \in DOMAIN tasks =>
           tasks[queue[n].task_id].sync_status = "error"

\* C17: under repeated sync cycles every queue item eventually is removed
\* from the queue or reaches retry_count = 3 with its task in 'error': no item
\* stays queued with retry_count < 3 forever.
C17_EveryItemSettles ==
  \A id \in 1..MaxItems : Eligible(id) ~> Settled(id)

(***************************************************************************)
(* Properties of the route with a remote that holds the task (SpecSeeded)  *)
(***************************************************************************)

\* The cycle drained the single 'update' item of a task whose local row still
\* is the snapshot, and the exchange found a remote version of that task with
\* an older updated_at.
LocalNewerThanRemote ==
  /\ pc = "apply"
  /\ Len(items) = 1
  /\ items[1].operation = "update"
  /\ "updated_at" \in DOMAIN items[1].data
  /\ tasks[items[1].task_id].updated_at = items[1].data.updated_at
  /\ items[1].task_id \in DOMAIN remote0
  /\ ~remote0[items[1].task_id].is_deleted
  /\ remote0[items[1].task_id].updated_at < items[1].data.updated_at

\* C13: when T1 was updated locally at t2 and the remote holds a version of
\* T1 with updated_at = t1 < t2, the cycle reports conflicts = 1, the local
\* task keeps the local version's fields and is 'synced'.
C13_LocalWinsConflict ==
  [][(ApplyOutcome /\ LocalNewerThanRemote) =>
       /\ conflicts' = 1
       /\ tasks'[items[1].task_id].title = items[1].data.title
       /\ tasks'[items[1].task_id].is_deleted = items[1].data.is_deleted
       /\ tasks'[items[1].task_id].sync_status = "synced"]_vars

\* What the claim C15 says of the route's answer r to 'update' item `item`
\* when the stored table is `table`.
UpdateAnswer(table, item, r) ==
  LET t == item.task_id
      clientData == item.data
  IN /\ r.entry.status # "conflict"
     /\ t \notin DOMAIN table =>
          /\ r.entry.status = "error"
          /\ r.table = table
     /\ (t \in DOMAIN table /\ clientData.updated_at > table[t].updated_at) =>
          /\ r.entry.status = "success"
          /\ r.table[t].title = clientData.title
          /\ r.table[t].is_deleted = clientData.is_deleted
          /\ r.entry.resolved_data.title = clientData.title
          /\ r.entry.resolved_data.id = t
     /\ (t \in DOMAIN table /\ clientData.updated_at <= table[t].updated_at) =>
          /\ r.entry.status = "success"
          /\ r.table = table
          /\ r.entry.resolved_data = JsonStringify(table[t])

\* C15: the route answers an 'update' item of task t with 'error' when no
\* record t is stored; with 'success', the stored record having taken the
\* client's fields, when the client's updated_at is strictly newer; with
\* 'success' and the stored record unchanged otherwise; never with 'conflict'.
C15_UpdateOutcomes ==
  pc = "exchange" =>
    \A n \in 1..Len(Batch) :
      (Batch[n].operation = "update" /\ "updated_at" \in DOMAIN Batch[n].data)
        => UpdateAnswer(remote, Batch[n], ProcessItem(remote, Batch[n], now))

\* C15 for the records getTask returns: the same, the stored record not
\* being soft-deleted.
C15_ReadableRecords ==
  pc = "exchange" =>
    \A n \in 1..Len(Batch) :
      (/\ Batch[n].operation = "update"
       /\ "updated_at" \in DOMAIN Batch[n].data
       /\ Batch[n].task_id \in DOMAIN remote => Readable(remote, Batch[n].task_id))
        => UpdateAnswer(remote, Batch[n], ProcessItem(remote, Batch[n], now))

\* Sequence s without its n-th element.
Without(s, n) == SubSeq(s, 1, n - 1) \o SubSeq(s, n + 1, Len(s))

\* C16: the route answers a batch of n items with exactly n entries, the i-th
\* carrying the i-th item's task_id as client_id; an item that throws gets
\* status 'error' and changes nothing else: the other items are processed as
\* if it had not been in the batch.
C16_OneEntryPerItem ==
  /\ pc = "apply" =>
       /\ Len(resp) = Len(Batch)
       /\ \A n \in 1..Len(resp) : resp[n].client_id = Batch[n].task_id
  /\ pc = "exchange" =>
       LET r == ProcessBatch(remote, Batch, now)
       IN /\ Len(r.processed_items) = Len(Batch)
          /\ \A n \in 1..Len(Batch) :
               /\ r.processed_items[n].client_id = Batch[n].task_id
               /\ r.processed_items[n].status = "error" =>
                    LET others == ProcessBatch(remote, Without(Batch, n), now)
                    IN /\ others.processed_items = Without(r.processed_items, n)
                       /\ others.table = r.table

\* C16 witness: the route has answered a batch of two; the first item threw,
\* the second was processed.
C16_Witness ==
  /\ pc = "apply"
  /\ Len(resp) = 2
  /\ resp[1].status = "error"
  /\ resp[2].status = "success"
  /\ remote # remote0

(***************************************************************************)
(* Properties of concurrent enqueues (SpecConcurrent)                      *)
(***************************************************************************)

\* C18: two calls of addToSyncQueue for the same task that run concurrently
\* never leave two queue items of that task, whatever the interleaving of
\* their DELETE and INSERT steps: once no call is in progress, every task has
\* at most one queue item.
C18_EnqueueAtomic ==
  (\A c \in Callers : enq[c].pc = "idle") =>
    \A t \in DOMAIN tasks : Cardinality(ItemsOfTask(queue, t)) <= 1

====
